---- MODULE Spec2Model ----
(***************************************************************************)
(* Model of the kitkuhar frontend core logic:                              *)
(*   - StepManager (components/admin/RecipeManager.tsx, second half):      *)
(*     the ordered list of cooking steps under addStep, removeStep,        *)
(*     moveStep, updateStepDescription, handleMediaUpload and removeMedia. *)
(*   - PortionCalculator (components/PortionCalculator.tsx): serving       *)
(*     count state, calculateQuantity and formatQuantity.                  *)
(* Array indices are 0-based as in the source; TLA+ sequences are 1-based, *)
(* so element index of the source is element index+1 of the sequence.      *)
(***************************************************************************)
EXTENDS Integers, Sequences, FiniteSets, TLC

VARIABLES
    steps,            \* StepManager prop `steps` = the parent form's steps field
    nextFile,         \* next filename the media upload service hands out
    pending,          \* in-flight axios requests of handleMediaUpload / removeMedia
    uploadingFiles,   \* StepManager state: the step indices whose flag is true
    last,             \* the last observed handler run: its name, and whether it called onChange
    originalServings, \* PortionCalculator prop
    ingredients,      \* PortionCalculator prop
    hasCallback,      \* whether the optional prop onServingsChange is given
    currentServings,  \* PortionCalculator state
    notified,         \* the last onServingsChange call, if any
    view,             \* what PortionCalculator renders from its props and state
    event,            \* the last PortionCalculator event handled
    quantity,         \* argument of a formatQuantity call
    formatted,        \* its result
    component,        \* the recipe form that is open: "RecipeForm", "RecipeManager" or "none"
    form,             \* its fields other than steps (recipe / recipeForm, editing, is_admin)
    error,            \* its error message state
    loading,          \* its loading flag
    sent,             \* requests in flight to the persistence API
    manager,          \* CategoriesTagsManager state: the new names and what is being edited
    legacy,           \* the steps field of a stored legacy recipe: one string
    deploy,           \* a run of the production deployment script and the host it acts on
    docker,           \* a run of the safe Docker cleanup script and the Docker host it acts on
    database,         \* the categories and users tables the backend entrypoint writes to
    recipeList        \* RecipeList state: the recipes shown, the delete request, what the user was told

stepVars == <<steps, nextFile, pending, uploadingFiles, last>>

portionVars == <<originalServings, ingredients, hasCallback, currentServings,
                 notified, view, event>>

formatVars == <<quantity, formatted>>

formVars == <<component, form, error, loading, sent, manager>>

legacyVars == <<legacy>>

scriptVars == <<deploy, docker, database>>

listVars == <<recipeList>>

vars == <<stepVars, portionVars, formatVars, formVars, legacyVars, scriptVars, listVars>>

\* what a component's handlers cannot reach
outsideStepManager == <<portionVars, formatVars, formVars, legacyVars, scriptVars, listVars>>
outsidePortionCalculator == <<stepVars, formatVars, formVars, legacyVars, scriptVars, listVars>>
outsideFormat == <<stepVars, portionVars, formVars, legacyVars, scriptVars, listVars>>

(***************************************************************************)
(* Bounds                                                                  *)
(***************************************************************************)
MaxSteps == 1       \* addStep is explored on lists shorter than this (media requests possible)
MaxSyncSteps == 3   \* the same, for the synchronous handlers alone
MaxFiles == 1       \* files the upload service stores in one run

\* values Date.now() returns; 1 stands for the id 'step-1' of the initial step
ClockValues == {2, 3}

\* files.length of a file-input change
FileCounts == {0, 1, 2}

\* step descriptions typed into the textarea, as character sequences
Descriptions == {<<>>, <<"m", "i", "x">>}

(***************************************************************************)
(* JavaScript numbers.  A number is NaN or an exact fraction num/den with  *)
(* den > 0; the arithmetic below is exact, i.e. the rounding error of      *)
(* IEEE-754 doubles is not represented.  Strings are sequences of          *)
(* one-character strings.                                                  *)
(***************************************************************************)
NaN == [nan |-> TRUE, num |-> 0, den |-> 1]

Num(n) == [nan |-> FALSE, num |-> n, den |-> 1]

Frac(n, d) == [nan |-> FALSE, num |-> n, den |-> d]

isNaN(a) == a.nan

\* a * b
Mul(a, b) ==
    IF a.nan \/ b.nan THEN NaN ELSE Frac(a.num * b.num, a.den * b.den)

\* a / b, for b # 0
Div(a, b) ==
    IF a.nan \/ b.nan THEN NaN
    ELSE IF b.num > 0 THEN Frac(a.num * b.den, a.den * b.num)
    ELSE Frac(-(a.num * b.den), -(a.den * b.num))

\* a + b
Add(a, b) ==
    IF a.nan \/ b.nan THEN NaN ELSE Frac(a.num * b.den + b.num * a.den, a.den * b.den)

\* a === b
StrictEq(a, b) == ~a.nan /\ ~b.nan /\ a.num * b.den = b.num * a.den

\* a > b
Gt(a, b) == ~a.nan /\ ~b.nan /\ a.num * b.den > b.num * a.den

\* a <= b
Le(a, b) == ~a.nan /\ ~b.nan /\ a.num * b.den <= b.num * a.den

\* Math.max(a, b)
MathMax(a, b) ==
    IF a.nan \/ b.nan THEN NaN ELSE IF Gt(b, a) THEN b ELSE a

\* Math.floor(a)
MathFloor(a) == IF a.nan THEN NaN ELSE Num(a.num \div a.den)

\* mutant: Math.floor where Math.round is meant
MathRound_Floor(a) == IF a.nan THEN NaN ELSE Num(a.num \div a.den)

\* Math.round(a): floor(a + 0.5)
MathRound(a) ==
    IF a.nan THEN NaN
    ELSE Num((a.num \div a.den) + (IF 2 * (a.num % a.den) >= a.den THEN 1 ELSE 0))

DigitChars == <<"0", "1", "2", "3", "4", "5", "6", "7", "8", "9">>

IsDigit(c) == \E d \in 1..10 : DigitChars[d] = c

DigitValue(c) == (CHOOSE d \in 1..10 : DigitChars[d] = c) - 1

RECURSIVE NatToString(_)
NatToString(n) ==
    IF n < 10 THEN <<DigitChars[n + 1]>>
    ELSE NatToString(n \div 10) \o <<DigitChars[(n % 10) + 1]>>

\* Number.prototype.toString of an integer-valued number or NaN
IntegerToString(a) ==
    IF a.nan THEN <<"N", "a", "N">>
    ELSE LET n == a.num \div a.den
         IN  IF n < 0 THEN <<"-">> \o NatToString(-n) ELSE NatToString(n)

\* Number.prototype.toFixed(2) of a number that is a whole count of hundredths
ToFixed2(a) ==
    IF a.nan THEN <<"N", "a", "N">>
    ELSE LET h == (a.num * 100) \div a.den
             m == IF h < 0 THEN -h ELSE h
         IN  (IF h < 0 THEN <<"-">> ELSE <<>>)
             \o NatToString(m \div 100)
             \o <<".", DigitChars[((m % 100) \div 10) + 1], DigitChars[(m % 10) + 1]>>

\* str[from..] matches  \.?0+$
MatchesDotZerosToEnd(str, from) ==
    LET zerosFrom == IF str[from] = "." THEN from + 1 ELSE from
    IN  /\ zerosFrom <= Len(str)
        /\ \A k \in zerosFrom..Len(str) : str[k] = "0"

\* str.replace(/\.?0+$/, ''): the leftmost match is removed
StripDotZeros(str) ==
    LET starts == {from \in 1..Len(str) : MatchesDotZerosToEnd(str, from)}
    IN  IF starts = {} THEN str
        ELSE SubSeq(str, 1, (CHOOSE from \in starts : \A g \in starts : from <= g) - 1)

RECURSIVE DigitsValue(_)
DigitsValue(str) ==
    IF str = <<>> THEN 0
    ELSE 10 * DigitsValue(SubSeq(str, 1, Len(str) - 1)) + DigitValue(str[Len(str)])

\* length of the longest prefix of str made of digits
DigitPrefixLen(str) ==
    CHOOSE n \in 0..Len(str) :
        /\ \A k \in 1..n : IsDigit(str[k])
        /\ (n < Len(str) => ~IsDigit(str[n + 1]))

\* parseInt(str): optional sign, then the longest run of decimal digits
parseInt(str) ==
    LET signed == Len(str) > 0 /\ str[1] \in {"-", "+"}
        body == IF signed THEN Tail(str) ELSE str
        n == DigitPrefixLen(body)
        magnitude == DigitsValue(SubSeq(body, 1, n))
    IN  IF n = 0 THEN NaN
        ELSE IF signed /\ str[1] = "-" THEN Num(-magnitude) ELSE Num(magnitude)

(***************************************************************************)
(* PortionCalculator                                                       *)
(***************************************************************************)
MaxServings == 4          \* largest originalServings explored
MaxCurrentServings == 6   \* largest currentServings explored
MaxInputLen == 2          \* longest text typed into the servings input
MaxThousandths == 3000    \* formatQuantity is applied to 0, 0.001, ... up to this many thousandths

InputChars == {"-", ".", "e", "0", "1", "5"}

InputTexts == UNION {[1..n -> InputChars] : n \in 0..MaxInputLen}

\* ingredient quantities of the recipes shown
Quantities == {Num(0), Num(1), Num(100), Frac(5, 2)}

IngredientLists ==
    UNION {[1..n -> [quantity : Quantities]] : n \in 1..2}

\* mutant: the ratio is taken the wrong way round
calculateQuantity_Inverted(originalQuantity, current, original) ==
    Mul(originalQuantity, Div(original, current))

calculateQuantity(originalQuantity, current, original) ==
    LET ratio == Div(current, original)
    IN  Mul(originalQuantity, ratio)

\* mutant: the result of toFixed(2) is returned as it is
formatQuantity_NoStrip(q) ==
    LET rounded == Div(MathRound(Mul(q, Num(100))), Num(100))
    IN  IF StrictEq(rounded, MathFloor(rounded))
        THEN IntegerToString(rounded)
        ELSE ToFixed2(rounded)

formatQuantity(q) ==
    LET rounded == Div(MathRound(Mul(q, Num(100))), Num(100))
    IN  IF StrictEq(rounded, MathFloor(rounded))
        THEN IntegerToString(rounded)
        ELSE StripDotZeros(ToFixed2(rounded))

\* mutant: the indicator compares with one serving
IsOriginal_One(current, original) == StrictEq(current, Num(1))

\* currentServings === originalServings
IsOriginal(current, original) == StrictEq(current, original)

\* the JSX returned for the given props and state
Render(original, list, current) ==
    [decrementDisabled |-> Le(current, Num(1)),
     indicator |-> IF IsOriginal(current, original) THEN "original" ELSE "scaled",
     quantities |-> [i \in 1..Len(list) |->
                        calculateQuantity(list[i].quantity, current, original)],
     texts |-> [i \in 1..Len(list) |->
                        formatQuantity(calculateQuantity(list[i].quantity, current, original))]]

NotNotified == [called |-> FALSE, arg |-> Num(0)]

PortionInit ==
    /\ originalServings \in {Num(n) : n \in 1..MaxServings}
    /\ ingredients \in IngredientLists
    /\ hasCallback \in BOOLEAN
    /\ currentServings = originalServings               \* useState(originalServings)
    /\ notified = NotNotified
    /\ view = Render(originalServings, ingredients, currentServings)
    /\ event = [kind |-> "mount", value |-> Num(0)]

\* the component is not mounted
PortionIdle ==
    /\ originalServings = Num(1)
    /\ ingredients = <<>>
    /\ hasCallback = FALSE
    /\ currentServings = Num(1)
    /\ notified = NotNotified
    /\ view = Render(Num(1), <<>>, Num(1))
    /\ event = [kind |-> "none", value |-> Num(0)]

\* mutant: the scaled quantities are written back into the ingredients
handleServingsChange_WritesBack(newServings) ==
    LET servings == MathMax(Num(1), newServings)
    IN  /\ currentServings' = servings
        /\ notified' = IF hasCallback THEN [called |-> TRUE, arg |-> servings] ELSE notified
        /\ view' = Render(originalServings, ingredients, servings)
        /\ ingredients' = [i \in 1..Len(ingredients) |->
               [quantity |-> calculateQuantity(ingredients[i].quantity, servings,
                                               originalServings)]]
        /\ UNCHANGED <<originalServings, hasCallback>>

\* setCurrentServings and the optional callback are all it does: the props
\* are read, never assigned
handleServingsChange(newServings) ==
    LET servings == MathMax(Num(1), newServings)
    IN  /\ currentServings' = servings
        /\ notified' = IF hasCallback THEN [called |-> TRUE, arg |-> servings] ELSE notified
        /\ view' = Render(originalServings, ingredients, servings)
        /\ UNCHANGED <<originalServings, ingredients, hasCallback>>

incrementServings ==
    /\ Gt(Num(MaxCurrentServings), currentServings)
    /\ handleServingsChange(Add(currentServings, Num(1)))
    /\ event' = [kind |-> "increment", value |-> Num(0)]
    /\ UNCHANGED outsidePortionCalculator

decrementServings ==
    /\ ~view.decrementDisabled                          \* disabled={currentServings <= 1}
    /\ handleServingsChange(Add(currentServings, Num(-1)))
    /\ event' = [kind |-> "decrement", value |-> Num(0)]
    /\ UNCHANGED outsidePortionCalculator

\* mutant: the parsed value is passed on unchecked
DirectInputAccepted_Unchecked(value) == TRUE

\* !isNaN(value) && value > 0
DirectInputAccepted(value) == ~isNaN(value) /\ Gt(value, Num(0))

handleDirectInputOf(text) ==
    LET value == parseInt(text)
    IN  /\ event' = [kind |-> "input", value |-> value]
        /\ IF DirectInputAccepted(value)
           THEN /\ Le(value, Num(MaxCurrentServings)) \/ isNaN(value)
                /\ handleServingsChange(value)
           ELSE UNCHANGED <<currentServings, notified, view,
                            originalServings, ingredients, hasCallback>>
        /\ UNCHANGED outsidePortionCalculator

handleDirectInput == \E text \in InputTexts : handleDirectInputOf(text)

(***************************************************************************)
(* formatQuantity applied to one quantity                                  *)
(***************************************************************************)
FormatInputs ==
    {Frac(n, 1000) : n \in 0..MaxThousandths}
        \cup {Num(2), Frac(5, 2), Frac(2333333, 1000000), Frac(30001, 10000),
              Num(10), Num(100), Frac(201, 2)}

NotFormatted == <<"?">>

FormatInit ==
    /\ quantity \in FormatInputs
    /\ formatted = NotFormatted

FormatIdle ==
    /\ quantity = Num(0)
    /\ formatted = NotFormatted

format ==
    /\ formatted = NotFormatted
    /\ formatted' = formatQuantity(quantity)
    /\ UNCHANGED <<quantity, outsideFormat>>

(***************************************************************************)
(* Array helpers used by the handlers                                      *)
(***************************************************************************)
\* steps.filter((_, i) => i !== index)
FilterOutIndex(arr, index) ==
    SubSeq(arr, 1, index) \o SubSeq(arr, index + 2, Len(arr))

\* mutant: the renumbering map is left out
Renumber_Skipped(arr) == arr

\* newSteps.map((step, i) => ({ ...step, stepNumber: i + 1 }))
Renumber(arr) ==
    [k \in 1..Len(arr) |-> [arr[k] EXCEPT !.stepNumber = k]]

\* newSteps.splice(toIndex, 0, movedStep)
SpliceInsert(arr, toIndex, item) ==
    LET at == IF toIndex > Len(arr) THEN Len(arr) ELSE toIndex
    IN  SubSeq(arr, 1, at) \o <<item>> \o SubSeq(arr, at + 1, Len(arr))

\* the step list a new form starts with
InitialSteps ==
    << [id |-> 1, stepNumber |-> 1, description |-> <<>>, media |-> <<>>] >>

\* the step list of a stored recipe opened for editing (setRecipe(recipeData))
LoadedSteps ==
    << [id |-> 1, stepNumber |-> 1, description |-> <<"m", "i", "x">>, media |-> <<0>>],
       [id |-> 2, stepNumber |-> 2, description |-> <<>>, media |-> <<>>] >>

NoCall == [called |-> FALSE, passed |-> <<>>]
Call(arr) == [called |-> TRUE, passed |-> arr]

(***************************************************************************)
(* StepManager handlers as functions: each yields the onChange call made   *)
(***************************************************************************)
\* mutant: stepNumber taken as steps.length
addStepResult_OffByOne(arr, clock) ==
    Call(Append(arr, [id |-> clock, stepNumber |-> Len(arr),
                      description |-> <<>>, media |-> <<>>]))

addStepResult(arr, clock) ==
    Call(Append(arr, [id |-> clock, stepNumber |-> Len(arr) + 1,
                      description |-> <<>>, media |-> <<>>]))

\* mutant: filter keeps the element at index and drops the one after it
removeStepResult_WrongElement(arr, index) ==
    Call(Renumber(FilterOutIndex(arr, IF index + 1 < Len(arr) THEN index + 1 ELSE 0)))

removeStepResult(arr, index) ==
    Call(Renumber(FilterOutIndex(arr, index)))

updateStepDescriptionResult(arr, index, description) ==
    Call([arr EXCEPT ![index + 1].description = description])

\* mutant: the two steps are exchanged instead of one being relocated
moveStepResult_Swap(arr, fromIndex, toIndex) ==
    IF toIndex < 0 \/ toIndex >= Len(arr)
    THEN NoCall
    ELSE Call(Renumber([k \in 1..Len(arr) |->
                  IF k = fromIndex + 1 THEN arr[toIndex + 1]
                  ELSE IF k = toIndex + 1 THEN arr[fromIndex + 1]
                  ELSE arr[k]]))

\* mutant: the upper bound check is `toIndex > steps.length`
moveStepResult_LooseBound(arr, fromIndex, toIndex) ==
    IF toIndex < 0 \/ toIndex > Len(arr)
    THEN NoCall
    ELSE LET movedStep == arr[fromIndex + 1]
             removed == FilterOutIndex(arr, fromIndex)
         IN  Call(Renumber(SpliceInsert(removed, toIndex, movedStep)))

moveStepResult(arr, fromIndex, toIndex) ==
    IF toIndex < 0 \/ toIndex >= Len(arr)
    THEN NoCall
    ELSE LET movedStep == arr[fromIndex + 1]
             removed == FilterOutIndex(arr, fromIndex)
         IN  Call(Renumber(SpliceInsert(removed, toIndex, movedStep)))

\* response.data.files.map(...): `count` files named from `first`; a media
\* item is identified by its filename (id: file.filename)
NewMedia(first, count) ==
    [k \in 1..count |-> first + k - 1]

\* mutant: the new media are attached to every step
uploadSuccessResult_EveryStep(arr, stepIndex, newMedia) ==
    Call([k \in 1..Len(arr) |-> [arr[k] EXCEPT !.media = @ \o newMedia]])

uploadSuccessResult(arr, stepIndex, newMedia) ==
    Call([arr EXCEPT ![stepIndex + 1].media = @ \o newMedia])

removeMediaResult(arr, stepIndex, mediaIndex) ==
    Call([arr EXCEPT ![stepIndex + 1].media = FilterOutIndex(@, mediaIndex)])

Record(op, result) == [op |-> op, called |-> result.called]

\* onChange={(steps) => setRecipe({ ...recipe, steps })}
OnChange(result) == IF result.called THEN result.passed ELSE steps

(***************************************************************************)
(* Actions: one per handler, its inputs as parameters                      *)
(***************************************************************************)
StepsInit ==
    /\ steps \in {InitialSteps, LoadedSteps}
    /\ nextFile = 1
    /\ pending = {}
    /\ uploadingFiles = {}
    /\ last = Record("init", NoCall)

addStepAt(clock, observed) ==
    /\ UNCHANGED outsideStepManager
    /\ LET r == addStepResult(steps, clock)
       IN  /\ steps' = OnChange(r)
           /\ last' = IF observed THEN Record("addStep", r) ELSE last
    /\ UNCHANGED <<nextFile, pending, uploadingFiles>>

removeStepAt(index, observed) ==
    /\ UNCHANGED outsideStepManager
    /\ LET r == removeStepResult(steps, index)
       IN  /\ steps' = OnChange(r)
           /\ last' = IF observed THEN Record("removeStep", r) ELSE last
    /\ UNCHANGED <<nextFile, pending, uploadingFiles>>

updateStepDescriptionAt(index, description, observed) ==
    /\ UNCHANGED outsideStepManager
    /\ LET r == updateStepDescriptionResult(steps, index, description)
       IN  /\ steps' = OnChange(r)
           /\ last' = IF observed THEN Record("updateStepDescription", r) ELSE last
    /\ UNCHANGED <<nextFile, pending, uploadingFiles>>

moveStepAt(fromIndex, toIndex, observed) ==
    /\ UNCHANGED outsideStepManager
    /\ LET r == moveStepResult(steps, fromIndex, toIndex)
       IN  /\ steps' = OnChange(r)
           /\ last' = IF observed THEN Record("moveStep", r) ELSE last
    /\ UNCHANGED <<nextFile, pending, uploadingFiles>>

(***************************************************************************)
(* handleMediaUpload: the part before `await` captures steps and           *)
(* stepIndex; the part after it runs when the upload service answers.      *)
(***************************************************************************)
UploadRequest(stepIndex, fileCount) ==
    [kind |-> "upload", stepIndex |-> stepIndex, mediaIndex |-> 0,
     count |-> fileCount, steps |-> steps,
     authorization |-> FALSE]       \* headers: { 'Content-Type': 'multipart/form-data' }

handleMediaUploadAt(stepIndex, fileCount) ==
    /\ UNCHANGED outsideStepManager
    /\ stepIndex \notin uploadingFiles          \* disabled={uploadingFiles[index]}
    /\ IF fileCount = 0                         \* files.length === 0: return
       THEN UNCHANGED <<pending, uploadingFiles>>
       ELSE /\ pending = {}                      \* one request in flight at a time
            /\ uploadingFiles' = uploadingFiles \cup {stepIndex}
            /\ pending' = pending \cup {UploadRequest(stepIndex, fileCount)}
    /\ UNCHANGED <<steps, nextFile, last>>

\* response.data.success is true
uploadSucceedsWithin(p, maxFiles, observed) ==
    /\ UNCHANGED outsideStepManager
    /\ p.kind = "upload"
    /\ nextFile + p.count - 1 <= maxFiles
    /\ LET r == uploadSuccessResult(p.steps, p.stepIndex, NewMedia(nextFile, p.count))
       IN  /\ steps' = OnChange(r)
           /\ last' = IF observed THEN Record("uploadSucceeds", r) ELSE last
    /\ nextFile' = nextFile + p.count
    /\ uploadingFiles' = uploadingFiles \ {p.stepIndex}
    /\ pending' = pending \ {p}

uploadSucceedsFor(p) == uploadSucceedsWithin(p, MaxFiles, FALSE)

\* the failure path without the finally block
uploadFailsAt_FlagLeft(p, observed) ==
    /\ UNCHANGED outsideStepManager
    /\ p.kind = "upload"
    /\ LET r == NoCall
       IN  /\ steps' = OnChange(r)
           /\ last' = IF observed THEN Record("uploadFails", r) ELSE last
    /\ pending' = pending \ {p}
    /\ UNCHANGED <<nextFile, uploadingFiles>>

\* response.data.success is false, or axios.post throws
uploadFailsAt(p, observed) ==
    /\ UNCHANGED outsideStepManager
    /\ p.kind = "upload"
    /\ LET r == NoCall
       IN  /\ steps' = OnChange(r)
           /\ last' = IF observed THEN Record("uploadFails", r) ELSE last
    /\ uploadingFiles' = uploadingFiles \ {p.stepIndex}     \* finally
    /\ pending' = pending \ {p}
    /\ UNCHANGED nextFile

uploadFailsFor(p) == uploadFailsAt(p, FALSE)

(***************************************************************************)
(* removeMedia: captures steps, stepIndex and mediaIndex before `await`    *)
(***************************************************************************)
DeleteRequest(stepIndex, mediaIndex) ==
    [kind |-> "delete", stepIndex |-> stepIndex, mediaIndex |-> mediaIndex,
     count |-> 0, steps |-> steps,
     authorization |-> FALSE]       \* axios.delete(url) without a config

removeMediaAt(stepIndex, mediaIndex) ==
    /\ UNCHANGED outsideStepManager
    /\ IF mediaIndex >= Len(steps[stepIndex + 1].media)      \* if (!media) return
       THEN UNCHANGED pending
       ELSE /\ pending = {}                      \* one request in flight at a time
            /\ pending' = pending \cup {DeleteRequest(stepIndex, mediaIndex)}
    /\ UNCHANGED <<steps, nextFile, uploadingFiles, last>>

removeMediaSucceedsAt(p, observed) ==
    /\ UNCHANGED outsideStepManager
    /\ p.kind = "delete"
    /\ LET r == removeMediaResult(p.steps, p.stepIndex, p.mediaIndex)
       IN  /\ steps' = OnChange(r)
           /\ last' = IF observed THEN Record("removeMediaSucceeds", r) ELSE last
    /\ pending' = pending \ {p}
    /\ UNCHANGED <<nextFile, uploadingFiles>>

removeMediaSucceedsFor(p) == removeMediaSucceedsAt(p, FALSE)

\* axios.delete throws: the catch block, no onChange
removeMediaFailsAt(p, observed) ==
    /\ UNCHANGED outsideStepManager
    /\ p.kind = "delete"
    /\ LET r == NoCall
       IN  /\ steps' = OnChange(r)
           /\ last' = IF observed THEN Record("removeMediaFails", r) ELSE last
    /\ pending' = pending \ {p}
    /\ UNCHANGED <<nextFile, uploadingFiles>>

removeMediaFailsFor(p) == removeMediaFailsAt(p, FALSE)

\* the indices of the rendered steps
StepIndices == 0..(Len(steps) - 1)

(***************************************************************************)
(* Recipe forms: RecipeForm and RecipeManager                              *)
(***************************************************************************)
MaxIngredients == 1   \* addIngredient is explored on lists shorter than this
MaxFormSteps == 2     \* addStep is explored in a form on lists shorter than this

\* String.prototype.trim removes these from both ends
WhiteSpace == {" ", "\n", "\r", "\t"}

\* index of the first character that is not white space, Len + 1 if none
FirstInk(str) ==
    LET inked == {i \in 1..Len(str) : str[i] \notin WhiteSpace}
    IN  IF inked = {} THEN Len(str) + 1
        ELSE CHOOSE i \in inked : \A j \in inked : i <= j

\* index of the last character that is not white space, 0 if none
LastInk(str) ==
    LET inked == {i \in 1..Len(str) : str[i] \notin WhiteSpace}
    IN  IF inked = {} THEN 0
        ELSE CHOOSE i \in inked : \A j \in inked : i >= j

\* str.trim()
Trim(str) == SubSeq(str, FirstInk(str), LastInk(str))

\* !str : the empty string is the only falsy string
Falsy(str) == str = <<>>

\* a || b on numbers: NaN and 0 are falsy
OrElse(a, b) == IF isNaN(a) \/ StrictEq(a, Num(0)) THEN b ELSE a

\* what is typed into the fields
Titles == {<<>>, <<"t">>}
IngredientNames == {<<>>, <<" ">>, <<"a">>}
ServingsTexts == {<<>>, <<"0">>, <<"2">>, <<"-", "1">>}
FormDescriptions == Descriptions \cup {<<" ">>}

\* value Date.now() returns while a form is edited
FormClockValues == {3}

\* { name: '', quantity: .., unit: .. }; quantity and unit are left out
BlankIngredient == [name |-> <<>>]

\* useState initial value of RecipeForm.recipe / RecipeManager.recipeForm
NewForm(admin) ==
    [title |-> <<>>, servings |-> Num(1), category |-> 0,
     ingredients |-> <<BlankIngredient>>, editing |-> FALSE, admin |-> admin]

\* a stored recipe put into the form: setRecipe(recipeData) / startEdit(recipe)
EditForm(admin) ==
    [title |-> <<"t">>, servings |-> Num(2), category |-> 1,
     ingredients |-> <<[name |-> <<"a">>]>>, editing |-> TRUE, admin |-> admin]

NoError == "none"

\* useState('') for the new names, useState(null) for what is edited
ManagerIdle ==
    [newName |-> [category |-> <<>>, tag |-> <<>>],
     editing |-> [category |-> FALSE, tag |-> FALSE]]

\* no form is open
FormIdle ==
    /\ component = "none"
    /\ form = NewForm(FALSE)
    /\ error = NoError
    /\ loading = FALSE
    /\ sent = <<>>
    /\ manager = ManagerIdle

\* a form is mounted, new or on a stored recipe; RecipeManager also for a
\* user who is not an administrator
FormInit ==
    /\ component \in {"RecipeForm", "RecipeManager"}
    /\ \E editing \in BOOLEAN, admin \in BOOLEAN :
          /\ component = "RecipeForm" => admin
          /\ form = IF editing THEN EditForm(admin) ELSE NewForm(admin)
          /\ steps = IF editing THEN LoadedSteps ELSE InitialSteps
    /\ error = NoError
    /\ loading = FALSE
    /\ sent = <<>>
    /\ manager = ManagerIdle
    /\ nextFile = 1
    /\ pending = {}
    /\ uploadingFiles = {}
    /\ last = Record("init", NoCall)

\* the fields of a form are edited while it is open and, in RecipeManager,
\* rendered (`if (!user?.is_admin) return` comes before the form).  Edits
\* while a save is in flight are not explored: the payload is fixed when
\* the request is issued.
Editable(which) ==
    /\ component = which
    /\ which = "RecipeManager" => form.admin
    /\ ~loading

formFrame == <<manager, stepVars, portionVars, formatVars, legacyVars, scriptVars, listVars>>

setForm(next) ==
    /\ form' = next
    /\ UNCHANGED <<component, error, loading, sent, formFrame>>

\* onChange of the title input, the same in both forms
setTitle ==
    /\ Editable("RecipeForm") \/ Editable("RecipeManager")
    /\ \E title \in Titles : setForm([form EXCEPT !.title = title])

\* RecipeForm: setRecipe({ ...recipe, servings: parseInt(e.target.value) })
setServingsInRecipeForm ==
    /\ Editable("RecipeForm")
    /\ \E text \in ServingsTexts : setForm([form EXCEPT !.servings = parseInt(text)])

\* RecipeManager: servings: parseInt(e.target.value) || 1
setServingsInRecipeManager ==
    /\ Editable("RecipeManager")
    /\ \E text \in ServingsTexts :
          setForm([form EXCEPT !.servings = OrElse(parseInt(text), Num(1))])

\* the category select: no category (0) or the category with id 1
setCategory ==
    /\ Editable("RecipeForm") \/ Editable("RecipeManager")
    /\ \E category \in {0, 1} : setForm([form EXCEPT !.category = category])

addIngredient ==
    /\ Editable("RecipeForm") \/ Editable("RecipeManager")
    /\ Len(form.ingredients) < MaxIngredients
    /\ setForm([form EXCEPT !.ingredients = Append(@, BlankIngredient)])

\* RecipeManager disables the button on the last ingredient, RecipeForm does not
removeIngredient ==
    /\ Editable("RecipeForm") \/ Editable("RecipeManager")
    /\ component = "RecipeManager" => Len(form.ingredients) # 1
    /\ \E index \in 0..(Len(form.ingredients) - 1) :
          setForm([form EXCEPT !.ingredients = FilterOutIndex(@, index)])

\* updateIngredient(index, 'name', value) / handleIngredientChange(index, 'name', value)
updateIngredient ==
    /\ Editable("RecipeForm") \/ Editable("RecipeManager")
    /\ \E index \in 0..(Len(form.ingredients) - 1), name \in IngredientNames :
          setForm([form EXCEPT !.ingredients[index + 1].name = name])

\* StepManager inside the open form; its remove button is disabled on the
\* last step
editSteps ==
    /\ Editable("RecipeForm") \/ Editable("RecipeManager")
    /\ \/ /\ Len(steps) < MaxFormSteps
          /\ \E clock \in FormClockValues : addStepAt(clock, FALSE)
       \/ /\ Len(steps) # 1
          /\ \E index \in StepIndices : removeStepAt(index, FALSE)
       \/ \E index \in StepIndices, description \in FormDescriptions :
              updateStepDescriptionAt(index, description, FALSE)

\* steps.some(step => !step.description.trim())
SomeStepBlank(arr) == \E k \in 1..Len(arr) : Falsy(Trim(arr[k].description))

Request(method, payload) ==
    [method |-> method, resource |-> "recipe", authorization |-> TRUE,
     payload |-> payload]

\* RecipeForm.handleSubmit: the check at its head
RecipeFormInvalid ==
    \/ Falsy(form.title)
    \/ Len(form.ingredients) = 0
    \/ form.category = 0
    \/ Len(steps) = 0
    \/ SomeStepBlank(steps)

\* recipeData of RecipeForm.handleSubmit
RecipeFormData ==
    [title |-> form.title,
     ingredients |-> SelectSeq(form.ingredients, LAMBDA ing : Trim(ing.name) # <<>>),
     steps |-> steps,
     servings |-> form.servings,
     category |-> form.category]

handleSubmit ==
    /\ component = "RecipeForm"
    /\ ~loading                                   \* disabled={loading}
    /\ IF RecipeFormInvalid
       THEN /\ error' = "validation"
            /\ UNCHANGED <<loading, sent>>
       ELSE /\ loading' = TRUE
            /\ error' = NoError
            /\ sent' = Append(sent, Request(IF form.editing THEN "put" ELSE "post",
                                            RecipeFormData))
    /\ UNCHANGED <<component, form, formFrame>>

\* the request of handleSubmit is answered: router.push('/recipes') on
\* success, setError in the catch block; setLoading(false) in both
handleSubmitSucceeds ==
    /\ component = "RecipeForm" /\ sent # <<>>
    /\ component' = "none"
    /\ loading' = FALSE
    /\ sent' = <<>>
    /\ UNCHANGED <<form, error, formFrame>>

handleSubmitFails ==
    /\ component = "RecipeForm" /\ sent # <<>>
    /\ error' = "save"
    /\ loading' = FALSE
    /\ sent' = <<>>
    /\ UNCHANGED <<component, form, formFrame>>

\* recipeForm as posted by createRecipe / put by updateRecipe
RecipeManagerData ==
    [title |-> form.title,
     ingredients |-> form.ingredients,
     steps |-> steps,
     servings |-> form.servings,
     category |-> form.category]

RecipeManagerInvalid ==
    \/ Falsy(Trim(form.title))
    \/ form.category = 0
    \/ Len(steps) = 0
    \/ SomeStepBlank(steps)

\* mutant: the button is disabled while loading only
SubmitDisabled_LoadingOnly == loading

\* disabled={loading || !recipeForm.title.trim() || ...} of the submit button
SubmitDisabled == loading \/ RecipeManagerInvalid

createRecipe ==
    /\ component = "RecipeManager" /\ form.admin
    /\ ~form.editing /\ ~SubmitDisabled           \* onClick={editingRecipe ? updateRecipe : createRecipe}
    /\ IF RecipeManagerInvalid
       THEN /\ error' = "validation"
            /\ UNCHANGED <<loading, sent>>
       ELSE /\ loading' = TRUE
            /\ error' = NoError
            /\ sent' = Append(sent, Request("post", RecipeManagerData))
    /\ UNCHANGED <<component, form, formFrame>>

updateRecipe ==
    /\ component = "RecipeManager" /\ form.admin
    /\ form.editing /\ ~SubmitDisabled
    /\ loading' = TRUE
    /\ error' = NoError
    /\ sent' = Append(sent, Request("put", RecipeManagerData))
    /\ UNCHANGED <<component, form, formFrame>>

\* resetForm() after the request succeeded; the form is opened again with
\* the "add recipe" button
saveSucceeds ==
    /\ component = "RecipeManager" /\ sent # <<>>
    /\ form' = NewForm(form.admin)
    /\ steps' = InitialSteps
    /\ loading' = FALSE
    /\ sent' = <<>>
    /\ UNCHANGED <<component, error, manager, nextFile, pending, uploadingFiles,
                   last, portionVars, formatVars, legacyVars, scriptVars, listVars>>

saveFails ==
    /\ component = "RecipeManager" /\ sent # <<>>
    /\ error' = "save"
    /\ loading' = FALSE
    /\ sent' = <<>>
    /\ UNCHANGED <<component, form, formFrame>>

(***************************************************************************)
(* The admin pages: CategoriesTagsManager, deleteRecipe, and StepManager   *)
(* inside the RecipeManager form.  createCategory ... deleteTag are the    *)
(* same code for the two resources.                                        *)
(***************************************************************************)
Resources == {"category", "tag"}

ManagerNames == {<<>>, <<" ">>, <<"c">>}

\* `if (!user?.is_admin) return` comes before everything the page renders
ManagerShown == component = "CategoriesTagsManager" /\ form.admin

managerFrame == <<component, form, error, stepVars, portionVars, formatVars, legacyVars, scriptVars, listVars>>

AdminRequest(method, resource) ==
    [method |-> method, resource |-> resource, authorization |-> TRUE,
     payload |-> <<>>]

\* onChange of the new category / new tag input
setNewName ==
    /\ ManagerShown
    /\ \E resource \in Resources, name \in ManagerNames :
          manager' = [manager EXCEPT !.newName[resource] = name]
    /\ UNCHANGED <<loading, sent, managerFrame>>

\* setEditingCategory(category) / setEditingCategory(null), the same for tags
setEditing ==
    /\ ManagerShown
    /\ \E resource \in Resources, editing \in BOOLEAN :
          manager' = [manager EXCEPT !.editing[resource] = editing]
    /\ UNCHANGED <<loading, sent, managerFrame>>

\* createCategory / createTag; the button is disabled while loading and on
\* a blank name
createEntry ==
    /\ ManagerShown
    /\ \E resource \in Resources :
          /\ ~(loading \/ Falsy(Trim(manager.newName[resource])))
          /\ IF Falsy(Trim(manager.newName[resource]))
             THEN UNCHANGED <<loading, sent>>
             ELSE /\ loading' = TRUE
                  /\ sent' = Append(sent, AdminRequest("post", resource))
    /\ UNCHANGED <<manager, managerFrame>>

\* updateCategory / updateTag; the button is rendered for what is edited
updateEntry ==
    /\ ManagerShown
    /\ \E resource \in Resources :
          /\ ~loading /\ manager.editing[resource]
          /\ loading' = TRUE
          /\ sent' = Append(sent, AdminRequest("put", resource))
    /\ UNCHANGED <<manager, managerFrame>>

\* deleteCategory / deleteTag: nothing happens unless confirm() is answered yes
deleteEntry ==
    /\ ManagerShown
    /\ ~loading
    /\ \E resource \in Resources, confirmed \in BOOLEAN :
          IF confirmed
          THEN /\ loading' = TRUE
               /\ sent' = Append(sent, AdminRequest("delete", resource))
          ELSE UNCHANGED <<loading, sent>>
    /\ UNCHANGED <<manager, managerFrame>>

\* the request of the manager is answered: the new name or the edited entry
\* is cleared on success, the error is set on failure; setLoading(false)
managerAnswered ==
    /\ component = "CategoriesTagsManager" /\ sent # <<>>
    /\ \E ok \in BOOLEAN :
          LET request == Head(sent)
          IN  /\ manager' =
                    IF ~ok \/ request.method = "delete" THEN manager
                    ELSE IF request.method = "post"
                         THEN [manager EXCEPT !.newName[request.resource] = <<>>]
                         ELSE [manager EXCEPT !.editing[request.resource] = FALSE]
              /\ error' = IF ok THEN error ELSE "save"
    /\ sent' = Tail(sent)
    /\ loading' = FALSE
    /\ UNCHANGED <<component, form, stepVars, portionVars, formatVars, legacyVars, scriptVars, listVars>>

\* RecipeManager.deleteRecipe
deleteRecipe ==
    /\ component = "RecipeManager" /\ form.admin
    /\ ~loading                                  \* disabled={loading}
    /\ \E confirmed \in BOOLEAN :
          IF confirmed
          THEN /\ loading' = TRUE
               /\ sent' = Append(sent, AdminRequest("delete", "recipe"))
          ELSE UNCHANGED <<loading, sent>>
    /\ UNCHANGED <<manager, managerFrame>>

deleteRecipeAnswered ==
    /\ component = "RecipeManager" /\ sent # <<>>
    /\ \E ok \in BOOLEAN : error' = IF ok THEN error ELSE "save"
    /\ sent' = Tail(sent)
    /\ loading' = FALSE
    /\ UNCHANGED <<component, form, manager, stepVars, portionVars, formatVars,
                   legacyVars, scriptVars, listVars>>

\* RecipeManager or CategoriesTagsManager is mounted, for an administrator
\* or for another user; RecipeManager has a stored recipe open in its form
AdminInit ==
    /\ component \in {"RecipeManager", "CategoriesTagsManager"}
    /\ \E admin \in BOOLEAN : form = EditForm(admin)
    /\ error = NoError
    /\ loading = FALSE
    /\ sent = <<>>
    /\ manager = ManagerIdle
    /\ steps = LoadedSteps
    /\ nextFile = 1
    /\ pending = {}
    /\ uploadingFiles = {}
    /\ last = Record("init", NoCall)

(***************************************************************************)
(* Legacy recipes: the steps field is one newline-delimited string         *)
(***************************************************************************)
MaxLegacyLen == 4     \* longest legacy steps string explored

LegacyChars == {"a", " ", "\n"}

LegacyTexts == UNION {[1..n -> LegacyChars] : n \in 0..MaxLegacyLen}

\* no legacy recipe is involved
LegacyIdle == legacy = <<>>

\* str.split('\n'): the pieces between the newlines, empty ones included
RECURSIVE Split(_)
Split(str) ==
    LET breaks == {i \in 1..Len(str) : str[i] = "\n"}
    IN  IF breaks = {} THEN <<str>>
        ELSE LET first == CHOOSE i \in breaks : \A j \in breaks : i <= j
             IN  <<SubSeq(str, 1, first - 1)>> \o Split(SubSeq(str, first + 1, Len(str)))

\* mutant: the blank lines are kept
StepTexts_Unfiltered(str) == Split(str)

\* recipeData.steps.split('\n').filter(step => step.trim())
StepTexts(str) == SelectSeq(Split(str), LAMBDA line : ~Falsy(Trim(line)))

\* stepTexts.map((stepText, index) => ({ id: `step-${index + 1}`, ... }))
StepsOfTexts(stepTexts) ==
    [k \in 1..Len(stepTexts) |->
        [id |-> k, stepNumber |-> k, description |-> Trim(stepTexts[k]),
         media |-> <<>>]]

\* RecipeForm.loadRecipe on a recipe whose steps is a string: the
\* conversion, then the fallback for an empty list
LoadedLegacySteps(str) ==
    LET converted == StepsOfTexts(StepTexts(str))
    IN  IF Len(converted) = 0 THEN InitialSteps ELSE converted

\* RecipeManager.startEdit on a recipe whose steps is not an array:
\* description: recipe.steps as string || ''
StartEditLegacySteps(str) ==
    << [id |-> 1, stepNumber |-> 1, description |-> str, media |-> <<>>] >>

\* a legacy recipe is stored and no form is open yet
LegacyInit ==
    /\ legacy \in LegacyTexts
    /\ component = "none"
    /\ form = NewForm(TRUE)
    /\ error = NoError
    /\ loading = FALSE
    /\ sent = <<>>
    /\ manager = ManagerIdle
    /\ steps = InitialSteps
    /\ nextFile = 1
    /\ pending = {}
    /\ uploadingFiles = {}
    /\ last = Record("init", NoCall)

\* RecipeForm with recipeId: loadRecipe puts the converted recipe into the form
loadRecipe ==
    /\ component = "none"
    /\ component' = "RecipeForm"
    /\ form' = EditForm(TRUE)
    /\ steps' = LoadedLegacySteps(legacy)
    /\ UNCHANGED <<error, loading, sent, manager, nextFile, pending, uploadingFiles,
                   last, portionVars, formatVars, legacyVars, scriptVars, listVars>>

\* RecipeManager: the edit button of the recipe card
startEdit ==
    /\ component = "none"
    /\ component' = "RecipeManager"
    /\ form' = EditForm(TRUE)
    /\ steps' = StartEditLegacySteps(legacy)
    /\ UNCHANGED <<error, loading, sent, manager, nextFile, pending, uploadingFiles,
                   last, portionVars, formatVars, legacyVars, scriptVars, listVars>>

(***************************************************************************)
(* The production deployment script (src/unnamed/part_008, second script). *)
(* A run is a walk along the commands main executes, in main's order; the  *)
(* host is the services that are up, the ./media directory and the         *)
(* contents of BACKUP_DIR.  Logging commands are left out: echo does not   *)
(* fail.                                                                   *)
(***************************************************************************)
outsideScripts == <<stepVars, portionVars, formatVars, formVars, legacyVars, listVars>>

Services == {"database", "redis", "backend", "frontend", "nginx"}

BackupItems == {"database_backup.sql", "media", ".env"}

\* the functions main calls between `trap rollback ERR` and the success message
StepFunctions ==
    <<"check_prerequisites", "validate_environment", "create_backup", "build_images",
      "deploy_services", "run_health_checks", "cleanup_old_images">>

\* kind "test": the condition of an `if` whose branch logs and ends with exit 1
\* kind "command": a simple command;  kind "wait": a `timeout N bash -c 'until ...'`
\* when: the `if` around the command ("always" when there is none)
Command(fn, cmd, kind, when) == [fn |-> fn, cmd |-> cmd, kind |-> kind, when |-> when]

check_prerequisites ==
    << Command("check_prerequisites", "command -v docker", "test", "always"),
       Command("check_prerequisites", "command -v docker-compose", "test", "always"),
       Command("check_prerequisites", "-f ENV_FILE", "test", "always"),
       Command("check_prerequisites", "-f COMPOSE_FILE", "test", "always") >>

validate_environment ==
    << Command("validate_environment", "source ENV_FILE", "command", "always"),
       Command("validate_environment", "SECRET_KEY set", "test", "always"),
       Command("validate_environment", "POSTGRES_PASSWORD set", "test", "always"),
       Command("validate_environment", "REDIS_PASSWORD set", "test", "always") >>

create_backup ==
    << Command("create_backup", "mkdir -p BACKUP_DIR", "command", "always"),
       Command("create_backup", "pg_dump", "command", "database Up"),
       Command("create_backup", "cp -r ./media", "command", "-d ./media"),
       Command("create_backup", "cp ENV_FILE", "command", "always") >>

build_images ==
    << Command("build_images", "build --no-cache", "command", "always") >>

deploy_services ==
    << Command("deploy_services", "pull", "command", "always"),
       Command("deploy_services", "up -d database redis", "command", "always"),
       Command("deploy_services", "until pg_isready", "wait", "always"),
       Command("deploy_services", "until redis-cli ping", "wait", "always"),
       Command("deploy_services", "up -d backend", "command", "always"),
       Command("deploy_services", "until curl backend health", "wait", "always"),
       Command("deploy_services", "up -d frontend nginx", "command", "always") >>

run_health_checks ==
    << Command("run_health_checks", "ps | grep Up", "test", "always"),
       Command("run_health_checks", "curl backend health", "test", "always"),
       Command("run_health_checks", "curl nginx health", "test", "always") >>

cleanup_old_images ==
    << Command("cleanup_old_images", "docker image prune -f", "command", "always") >>

\* main: the seven functions, then `docker-compose ps` in main's own body
main ==
    check_prerequisites \o validate_environment \o create_backup \o build_images
        \o deploy_services \o run_health_checks \o cleanup_old_images
        \o << Command("main", "docker-compose ps", "command", "always") >>

\* the script sets errexit only (set -e): errtrace (set -E) is off
errtrace == FALSE

\* bash: the ERR trap is not inherited by shell functions unless errtrace is
\* set, so the trap main sets is in force for the commands of main's own
\* body and for no command of a function main calls
ErrTrapInForce(fn) == errtrace \/ fn = "main"

\* the exit status of a failing command: timeout(1) answers 124, others 1
FailureStatus(kind) == IF kind = "wait" THEN 124 ELSE 1

\* whether the `if` around a command lets it run
Runs(d, c) ==
    \/ c.when = "always"
    \/ c.when = "database Up" /\ "database" \in d.running
    \/ c.when = "-d ./media" /\ d.mediaDir

\* docker-compose up -d SERVICES: they run, started by this run of the script
Up(d, services) ==
    [d EXCEPT !.running = @ \cup services, !.started = @ \cup services]

\* what a command that succeeded leaves on the host; a wait that ended
\* has seen its service answer
Effect(d, c) ==
    CASE c.cmd = "mkdir -p BACKUP_DIR" -> [d EXCEPT !.backupDir = TRUE]
      [] c.cmd = "pg_dump" -> [d EXCEPT !.backup = @ \cup {"database_backup.sql"}]
      [] c.cmd = "cp -r ./media" -> [d EXCEPT !.backup = @ \cup {"media"}]
      [] c.cmd = "cp ENV_FILE" -> [d EXCEPT !.backup = @ \cup {".env"}]
      [] c.cmd = "up -d database redis" -> Up(d, {"database", "redis"})
      [] c.cmd = "up -d backend" -> Up(d, {"backend"})
      [] c.cmd = "up -d frontend nginx" -> Up(d, {"frontend", "nginx"})
      [] c.cmd = "until pg_isready" -> [d EXCEPT !.ready = @ \cup {"database"}]
      [] c.cmd = "until redis-cli ping" -> [d EXCEPT !.ready = @ \cup {"redis"}]
      [] c.cmd = "until curl backend health" -> [d EXCEPT !.ready = @ \cup {"backend"}]
      [] OTHER -> d

\* rollback: docker-compose down, then whatever BACKUP_DIR holds is put
\* back (the database is started again to load the dump), then exit 1
rollback(d) ==
    LET held == IF d.backupDir THEN d.backup ELSE {}
    IN  [d EXCEPT !.running = IF "database_backup.sql" \in held THEN {"database"} ELSE {},
                  !.restored = {item \in BackupItems : item \in held},
                  !.rolledBack = TRUE,
                  !.state = "exited",
                  !.status = 1]

\* the script ends without running anything more
Exit(d, status, fn) == [d EXCEPT !.state = "exited", !.status = status, !.failedIn = fn]

DeployIdle ==
    deploy = [state |-> "idle", pc |-> 1, status |-> 0, failedIn |-> "none",
              rolledBack |-> FALSE, running |-> {}, mediaDir |-> FALSE,
              backupDir |-> FALSE, backup |-> {}, restored |-> {},
              started |-> {}, ready |-> {}]

\* the script is started on a host where the previous deployment is up,
\* partly up or down, with or without a ./media directory; BACKUP_DIR is
\* named after the second of the start and does not exist yet
DeployInit ==
    \E running \in {{}, {"database"}, Services}, mediaDir \in BOOLEAN :
        deploy = [state |-> "running", pc |-> 1, status |-> 0, failedIn |-> "none",
                  rolledBack |-> FALSE, running |-> running, mediaDir |-> mediaDir,
                  backupDir |-> FALSE, backup |-> {}, restored |-> {},
              started |-> {}, ready |-> {}]

\* the command at pc succeeds, or its `if` skips it; after the last one
\* main returns and the script ends with status 0
commandSucceeds ==
    /\ deploy.state = "running"
    /\ LET c == main[deploy.pc]
           d == IF Runs(deploy, c) THEN Effect(deploy, c) ELSE deploy
       IN  deploy' = IF deploy.pc = Len(main)
                        THEN Exit(d, 0, "none")
                        ELSE [d EXCEPT !.pc = @ + 1]
    /\ UNCHANGED <<docker, database, outsideScripts>>

\* a check of a step fails: log_error, then an explicit exit 1
testFails ==
    /\ deploy.state = "running"
    /\ main[deploy.pc].kind = "test"
    /\ deploy' = Exit(deploy, 1, main[deploy.pc].fn)
    /\ UNCHANGED <<docker, database, outsideScripts>>

\* the same failure in a shell without errexit: the next command runs
commandFails_WithoutErrexit ==
    /\ deploy.state = "running"
    /\ LET c == main[deploy.pc]
       IN  /\ c.kind \in {"command", "wait"}
           /\ Runs(deploy, c)
           /\ deploy' = IF deploy.pc = Len(main)
                            THEN Exit(deploy, FailureStatus(c.kind), c.fn)
                            ELSE [deploy EXCEPT !.pc = @ + 1]
    /\ UNCHANGED <<docker, database, outsideScripts>>

\* a simple command fails or a wait times out: under set -e the shell
\* exits with the command's status, after the ERR trap where it is in force
commandFails ==
    /\ deploy.state = "running"
    /\ LET c == main[deploy.pc]
       IN  /\ c.kind \in {"command", "wait"}
           /\ Runs(deploy, c)
           /\ deploy' = IF ErrTrapInForce(c.fn)
                            THEN rollback(Exit(deploy, FailureStatus(c.kind), c.fn))
                            ELSE Exit(deploy, FailureStatus(c.kind), c.fn)
    /\ UNCHANGED <<docker, database, outsideScripts>>

(***************************************************************************)
(* The safe Docker cleanup script (src/unnamed/part_000, second script).   *)
(* The host is the containers of the production project (running or        *)
(* stopped), their images, the project network, the build cache and the    *)
(* named volumes.  The script has no set -e: a command that fails changes  *)
(* nothing and the next one runs.                                          *)
(***************************************************************************)
DatabaseVolumes == {"kitkuhar_postgres_data_prod", "kitkuhar_redis_data_prod"}

LogMediaVolumes ==
    {"kitkuhar_nginx_logs_prod", "kitkuhar_app_logs_prod", "kitkuhar_media_files_prod"}

\* the volumes a container of the production project mounts
Mounts(service) ==
    CASE service = "database" -> {"kitkuhar_postgres_data_prod"}
      [] service = "redis" -> {"kitkuhar_redis_data_prod"}
      [] service = "nginx" -> {"kitkuhar_nginx_logs_prod"}
      [] service = "backend" -> {"kitkuhar_app_logs_prod", "kitkuhar_media_files_prod"}
      [] OTHER -> {}

\* read -n 1 -r: one key, or nothing when Enter is pressed
Replies == {"y", "Y", "n", "N", ""}

\* [[ $REPLY =~ ^[Yy]$ ]]
Confirmed(reply) == reply = "y" \/ reply = "Y"

Containers(h) == h.running \cup h.stopped

\* a volume is in use while a container that mounts it exists
InUse(h) == UNION {Mounts(c) : c \in Containers(h)}

StopAll(h) == [h EXCEPT !.running = {}, !.stopped = h.stopped \cup h.running]

ContainerPrune(h) == [h EXCEPT !.stopped = {}]

\* -a: every image no container uses
ImagePrune(h) == [h EXCEPT !.images = @ \cap Containers(h)]

NetworkPrune(h) == [h EXCEPT !.network = @ /\ Containers(h) # {}]

BuilderPrune(h) == [h EXCEPT !.cache = FALSE]

\* docker system prune -af --volumes, as the other cleanup script of the file runs it
SystemPrune_WithVolumes(h) ==
    LET pruned == BuilderPrune(ImagePrune(NetworkPrune(ContainerPrune(h))))
    IN  [pruned EXCEPT !.volumes = @ \cap InUse(pruned)]

\* docker system prune -af: stopped containers, unused networks, unused
\* images and the build cache; volumes are pruned only with --volumes
SystemPrune(h) == BuilderPrune(ImagePrune(NetworkPrune(ContainerPrune(h))))

\* docker volume rm NAME: an error when the volume is missing or in use
VolumeRm(h, name) ==
    IF name \in h.volumes /\ name \notin InUse(h)
        THEN [h EXCEPT !.volumes = @ \ {name}]
        ELSE h

\* the commands of the confirmed branch, in order
CleanupCommands ==
    <<"docker stop", "system prune -af", "image prune -af", "container prune -f",
      "network prune -f", "builder prune -af", "volume rm kitkuhar_nginx_logs_prod",
      "volume rm kitkuhar_app_logs_prod", "volume rm kitkuhar_media_files_prod">>

Cleaned(h, cmd) ==
    CASE cmd = "docker stop" -> StopAll(h)
      [] cmd = "system prune -af" -> SystemPrune(h)
      [] cmd = "image prune -af" -> ImagePrune(h)
      [] cmd = "container prune -f" -> ContainerPrune(h)
      [] cmd = "network prune -f" -> NetworkPrune(h)
      [] cmd = "builder prune -af" -> BuilderPrune(h)
      [] cmd = "volume rm kitkuhar_nginx_logs_prod" -> VolumeRm(h, "kitkuhar_nginx_logs_prod")
      [] cmd = "volume rm kitkuhar_app_logs_prod" -> VolumeRm(h, "kitkuhar_app_logs_prod")
      [] cmd = "volume rm kitkuhar_media_files_prod" -> VolumeRm(h, "kitkuhar_media_files_prod")

NoHost ==
    [running |-> {}, stopped |-> {}, images |-> {}, network |-> FALSE, cache |-> FALSE,
     volumes |-> {}]

CleanupIdle ==
    docker = [state |-> "idle", pc |-> 1, reply |-> "", host |-> NoHost, initial |-> NoHost]

\* the hosts the script is started on: the project up, stopped, or gone
\* with its volumes left behind
CleanupHosts ==
    { [running |-> running, stopped |-> stopped, images |-> running \cup stopped,
       network |-> running # {}, cache |-> cache, volumes |-> volumes] :
         running \in {{}, Services}, stopped \in {{}, {"backend"}},
         cache \in BOOLEAN,
         volumes \in {DatabaseVolumes \cup LogMediaVolumes,
                      DatabaseVolumes \cup {"kitkuhar_media_files_prod"}} }

\* the script has printed what it will delete and waits at the prompt
CleanupInit ==
    \E h \in CleanupHosts :
        docker = [state |-> "asking", pc |-> 1, reply |-> "", host |-> h, initial |-> h]

\* read -p "Proceed with safe cleanup? (y/N): " -n 1 -r, then the `if`:
\* the else branch only prints "Cleanup cancelled"
answer ==
    /\ docker.state = "asking"
    /\ \E reply \in Replies :
        docker' = [docker EXCEPT !.reply = reply,
                                 !.state = IF Confirmed(reply) THEN "running" ELSE "done"]
    /\ UNCHANGED <<deploy, database, outsideScripts>>

nextCommand(d) ==
    IF d.pc = Len(CleanupCommands)
        THEN [d EXCEPT !.state = "done"]
        ELSE [d EXCEPT !.pc = @ + 1]

\* the command at pc does its work
cleanupCommandSucceeds ==
    /\ docker.state = "running"
    /\ docker' = nextCommand([docker EXCEPT !.host = Cleaned(@, CleanupCommands[docker.pc])])
    /\ UNCHANGED <<deploy, database, outsideScripts>>

\* the command at pc fails (sudo or the daemon refuses): nothing changes
cleanupCommandFails ==
    /\ docker.state = "running"
    /\ docker' = nextCommand(docker)
    /\ UNCHANGED <<deploy, database, outsideScripts>>

(***************************************************************************)
(* create_initial_data of the backend entrypoint                           *)
(* (src/backend/docker-entrypoint.sh).  The database is the rows of the    *)
(* categories and users tables; every container start runs the function   *)
(* once, before the application is started.                                *)
(***************************************************************************)
MaxStarts == 3

\* the six names of the script, transliterated
default_categories ==
    <<"Zakusky", "Supy", "Druhi stravy", "Deserty", "Napoi", "Salaty">>

\* ADMIN_EMAIL, ADMIN_USERNAME, ADMIN_PASSWORD of the container: all
\* three set, or one of them missing
AdminEnvs ==
    { [email |-> "admin@kitkuhar", username |-> "admin", password |-> TRUE],
      [email |-> "chef@kitkuhar", username |-> "chef", password |-> TRUE],
      [email |-> "admin@kitkuhar", username |-> "admin", password |-> FALSE] }

CategoryRow(id, name) == [id |-> id, name |-> name]

UserRow(id, env) ==
    [id |-> id, email |-> env.email, username |-> env.username, is_admin |-> TRUE]

\* the categories the loop adds whatever the table holds
NewCategories_Unchecked(db) ==
    { CategoryRow(db.nextId + i, default_categories[i]) : i \in DOMAIN default_categories }

\* for cat_name in default_categories: if cat_name not in existing_names: db.add(...)
NewCategories(db) ==
    LET existing_names == { c.name : c \in db.categories }
    IN  { CategoryRow(db.nextId + i, default_categories[i]) :
            i \in { j \in DOMAIN default_categories :
                      default_categories[j] \notin existing_names } }

\* if admin_email and admin_username and admin_password: add the admin
\* user unless a user with that e-mail exists
NewUsers(db, env) ==
    LET existing_admin == { u \in db.users : u.email = env.email }
    IN  IF env.password /\ existing_admin = {}
            THEN { UserRow(db.nextId + Len(default_categories) + 1, env) }
            ELSE {}

EntrypointIdle ==
    database = [categories |-> {}, users |-> {}, nextId |-> 0, starts |-> 0,
                committed |-> 0]

\* the tables before the first start of the container: empty, or with what
\* the application stored since (a category of its own, some of the
\* default ones, a registered user who is not an administrator)
EntrypointInit ==
    \E categories \in { {}, {CategoryRow(1, "Supy")},
                        {CategoryRow(1, "Inshe"), CategoryRow(2, "Salaty")} },
       users \in { {}, {[id |-> 1, email |-> "admin@kitkuhar", username |-> "olha",
                         is_admin |-> FALSE]} } :
        database = [categories |-> categories, users |-> users, nextId |-> 2,
                    starts |-> 0, committed |-> 0]

\* a container start on which the python block runs to db.commit()
create_initial_data ==
    /\ database.starts < MaxStarts
    /\ \E env \in AdminEnvs :
        database' = [database EXCEPT
            !.categories = @ \cup NewCategories(database),
            !.users = @ \cup NewUsers(database, env),
            !.nextId = @ + Len(default_categories) + 1,
            !.starts = @ + 1,
            !.committed = @ + 1]
    /\ UNCHANGED <<deploy, docker, outsideScripts>>

\* a container start on which the block raises before the commit (the
\* import, the connection, a query or the commit itself): the except
\* clause prints the error, nothing is stored and the startup goes on
create_initial_dataFails ==
    /\ database.starts < MaxStarts
    /\ database' = [database EXCEPT !.starts = @ + 1]
    /\ UNCHANGED <<deploy, docker, outsideScripts>>

ScriptsIdle == DeployIdle /\ CleanupIdle /\ EntrypointIdle

(***************************************************************************)
(* RecipeList.handleDelete (src/unnamed/part_005) on top of                *)
(* ApiClient.request (src/frontend/config/apiClient.ts).  Recipes are      *)
(* their ids; the list shown is the one fetchRecipes stored.               *)
(***************************************************************************)
MaxDeleteClicks == 3

FetchedRecipes == {<<1, 2>>, <<1, 2, 3>>}

\* what fetch does with a DELETE: a 2xx answer, an error status, or a
\* rejection (no connection)
FetchOutcomes == {"ok", "http error", "network error"}

\* ApiClient.request: every outcome is returned as a value, the
\* promise is never rejected
ApiResponse(outcome) ==
    CASE outcome = "ok" -> [rejected |-> FALSE, error |-> "none", status |-> 200]
      [] outcome = "http error" -> [rejected |-> FALSE, error |-> "HTTP 500", status |-> 500]
      [] outcome = "network error" -> [rejected |-> FALSE, error |-> "Network error", status |-> 0]

\* recipes.filter(recipe => recipe.id !== id)
WithoutRecipe(recipes, id) == SelectSeq(recipes, LAMBDA r : r # id)

ListIdle ==
    recipeList = [recipes |-> <<>>, fetched |-> <<>>, hasOnDelete |-> FALSE, clicks |-> 0,
                  pending |-> {}, deletedOnServer |-> {}, failed |-> {},
                  onDeleteCalls |-> 0, alerts |-> 0, last |-> "none"]

\* the list has been fetched and is shown
ListInit ==
    \E fetched \in FetchedRecipes, hasOnDelete \in BOOLEAN :
        recipeList = [recipes |-> fetched, fetched |-> fetched, hasOnDelete |-> hasOnDelete,
                      clicks |-> 0, pending |-> {}, deletedOnServer |-> {}, failed |-> {},
                      onDeleteCalls |-> 0, alerts |-> 0, last |-> "none"]

\* the delete button of a card, and the user declines window.confirm
handleDeleteDeclined ==
    /\ recipeList.clicks < MaxDeleteClicks
    /\ recipeList.pending = {}
    /\ \E k \in 1..Len(recipeList.recipes) :
        recipeList' = [recipeList EXCEPT !.clicks = @ + 1, !.last = "declined"]
    /\ UNCHANGED <<stepVars, portionVars, formatVars, formVars, legacyVars, scriptVars>>

\* the delete button of a card, and the user confirms: the request is
\* sent; the handler keeps the recipes of the render it was created in
handleDelete ==
    /\ recipeList.clicks < MaxDeleteClicks
    /\ recipeList.pending = {}
    /\ \E k \in 1..Len(recipeList.recipes) :
        recipeList' = [recipeList EXCEPT
            !.clicks = @ + 1,
            !.last = "sent",
            !.pending = @ \cup {[id |-> recipeList.recipes[k], recipes |-> recipeList.recipes]}]
    /\ UNCHANGED <<stepVars, portionVars, formatVars, formVars, legacyVars, scriptVars>>

\* the awaited apiClient.delete settles and the handler goes on: after a
\* rejection the catch block (console.error, alert), otherwise setRecipes
\* and onDelete
handleDeleteAnswered ==
    /\ \E p \in recipeList.pending, outcome \in FetchOutcomes :
        LET response == ApiResponse(outcome)
            served == [recipeList EXCEPT
                         !.pending = @ \ {p},
                         !.last = outcome,
                         !.deletedOnServer = IF outcome = "ok" THEN @ \cup {p.id} ELSE @,
                         !.failed = IF outcome = "ok" THEN @ ELSE @ \cup {p.id}]
        IN  recipeList' =
                IF response.rejected
                    THEN [served EXCEPT !.alerts = @ + 1]
                    ELSE [served EXCEPT
                            !.recipes = WithoutRecipe(p.recipes, p.id),
                            !.onDeleteCalls = IF served.hasOnDelete THEN @ + 1 ELSE @]
    /\ UNCHANGED <<stepVars, portionVars, formatVars, formVars, legacyVars, scriptVars>>

\* the components and scripts a specification leaves alone
IdleElsewhere == FormIdle /\ LegacyIdle /\ ScriptsIdle /\ ListIdle

(***************************************************************************)
(* The handlers with their inputs drawn from the values the page offers    *)
(***************************************************************************)
addStep ==
    /\ Len(steps) < MaxSteps
    /\ \E clock \in ClockValues : addStepAt(clock, FALSE)

removeStep == \E index \in StepIndices : removeStepAt(index, FALSE)

updateStepDescription ==
    \E index \in StepIndices, description \in Descriptions :
        updateStepDescriptionAt(index, description, FALSE)

moveStep ==
    \E fromIndex \in StepIndices, toIndex \in -1..Len(steps) :
        moveStepAt(fromIndex, toIndex, FALSE)

handleMediaUpload ==
    \E stepIndex \in StepIndices, fileCount \in FileCounts :
        handleMediaUploadAt(stepIndex, fileCount)

uploadSucceeds == \E p \in pending : uploadSucceedsFor(p)

uploadFails == \E p \in pending : uploadFailsFor(p)

removeMedia ==
    \E stepIndex \in StepIndices :
        \E mediaIndex \in 0..Len(steps[stepIndex + 1].media) :
            removeMediaAt(stepIndex, mediaIndex)

removeMediaSucceeds == \E p \in pending : removeMediaSucceedsFor(p)

removeMediaFails == \E p \in pending : removeMediaFailsFor(p)

Init == StepsInit /\ PortionIdle /\ FormatIdle /\ IdleElsewhere

Next ==
    \/ addStep
    \/ removeStep
    \/ updateStepDescription
    \/ moveStep
    \/ handleMediaUpload
    \/ uploadSucceeds
    \/ uploadFails
    \/ removeMedia
    \/ removeMediaSucceeds
    \/ removeMediaFails

Spec == Init /\ [][Next]_vars

(***************************************************************************)
(* The synchronous handlers alone, each run observed in `last`             *)
(***************************************************************************)
addStepSync ==
    /\ Len(steps) < MaxSyncSteps
    /\ \E clock \in ClockValues : addStepAt(clock, TRUE)

removeStepSync == \E index \in StepIndices : removeStepAt(index, TRUE)

updateStepDescriptionSync ==
    \E index \in StepIndices, description \in Descriptions :
        updateStepDescriptionAt(index, description, TRUE)

moveStepSync ==
    \E fromIndex \in StepIndices, toIndex \in -1..Len(steps) :
        moveStepAt(fromIndex, toIndex, TRUE)

NextSync ==
    \/ addStepSync
    \/ removeStepSync
    \/ updateStepDescriptionSync
    \/ moveStepSync

SpecSync == Init /\ [][NextSync]_vars

(***************************************************************************)
(* PortionCalculator mounted on a recipe                                   *)
(***************************************************************************)
StepsIdle ==
    /\ steps = InitialSteps
    /\ nextFile = 1
    /\ pending = {}
    /\ uploadingFiles = {}
    /\ last = Record("init", NoCall)

InitPortion == StepsIdle /\ PortionInit /\ FormatIdle /\ IdleElsewhere

NextPortion ==
    \/ incrementServings
    \/ decrementServings
    \/ handleDirectInput

SpecPortion == InitPortion /\ [][NextPortion]_vars

(***************************************************************************)
(* formatQuantity as a function                                            *)
(***************************************************************************)
InitFormat == StepsIdle /\ PortionIdle /\ FormatInit /\ IdleElsewhere

NextFormat == format

SpecFormat == InitFormat /\ [][NextFormat]_vars

(***************************************************************************)
(* A recipe form from mount to save                                        *)
(***************************************************************************)
InitForm == FormInit /\ PortionIdle /\ FormatIdle /\ LegacyIdle /\ ScriptsIdle /\ ListIdle

NextForm ==
    \/ setTitle
    \/ setServingsInRecipeForm
    \/ setServingsInRecipeManager
    \/ setCategory
    \/ addIngredient
    \/ removeIngredient
    \/ updateIngredient
    \/ editSteps
    \/ handleSubmit
    \/ handleSubmitSucceeds
    \/ handleSubmitFails
    \/ createRecipe
    \/ updateRecipe
    \/ saveSucceeds
    \/ saveFails

SpecForm == InitForm /\ [][NextForm]_vars

(***************************************************************************)
(* The admin pages and the requests they issue                             *)
(***************************************************************************)
InitAdmin == AdminInit /\ PortionIdle /\ FormatIdle /\ LegacyIdle /\ ScriptsIdle /\ ListIdle

\* StepManager is rendered inside the form RecipeManager shows an administrator
stepMediaInForm ==
    /\ component = "RecipeManager" /\ form.admin
    /\ \/ handleMediaUpload
       \/ uploadSucceeds
       \/ uploadFails
       \/ removeMedia
       \/ removeMediaSucceeds
       \/ removeMediaFails

NextAdmin ==
    \/ setNewName
    \/ setEditing
    \/ createEntry
    \/ updateEntry
    \/ deleteEntry
    \/ managerAnswered
    \/ deleteRecipe
    \/ deleteRecipeAnswered
    \/ stepMediaInForm

SpecAdmin == InitAdmin /\ [][NextAdmin]_vars

(***************************************************************************)
(* Media of one step: uploads of several files and removals                *)
(***************************************************************************)
MaxStoredFiles == 6   \* files the upload service stores in one run of this specification

\* "Максимум 5 файлів на крок" under the file input
MaxMediaPerStep == 5

\* files.length of a file-input change (the input is `multiple`)
UploadCounts == {1, 3}

InitMedia == StepsIdle /\ PortionIdle /\ FormatIdle /\ IdleElsewhere

selectFiles ==
    \E stepIndex \in StepIndices, fileCount \in UploadCounts :
        handleMediaUploadAt(stepIndex, fileCount)

filesStored == \E p \in pending : uploadSucceedsWithin(p, MaxStoredFiles, FALSE)

NextMedia ==
    \/ selectFiles
    \/ filesStored
    \/ uploadFails
    \/ removeMedia
    \/ removeMediaSucceeds
    \/ removeMediaFails

SpecMedia == InitMedia /\ [][NextMedia]_vars

(***************************************************************************)
(* Opening a legacy recipe in either form                                  *)
(***************************************************************************)
InitLegacy == LegacyInit /\ PortionIdle /\ FormatIdle /\ ScriptsIdle /\ ListIdle

NextLegacy ==
    \/ loadRecipe
    \/ startEdit

SpecLegacy == InitLegacy /\ [][NextLegacy]_vars

(***************************************************************************)
(* One run of the production deployment script                             *)
(***************************************************************************)
InitDeploy ==
    StepsIdle /\ PortionIdle /\ FormatIdle /\ FormIdle /\ LegacyIdle /\ CleanupIdle
        /\ EntrypointIdle /\ ListIdle /\ DeployInit

NextDeploy ==
    \/ commandSucceeds
    \/ testFails
    \/ commandFails

SpecDeploy == InitDeploy /\ [][NextDeploy]_vars

(***************************************************************************)
(* One run of the safe Docker cleanup script                               *)
(***************************************************************************)
InitCleanup ==
    StepsIdle /\ PortionIdle /\ FormatIdle /\ FormIdle /\ LegacyIdle /\ DeployIdle
        /\ EntrypointIdle /\ ListIdle /\ CleanupInit

NextCleanup ==
    \/ answer
    \/ cleanupCommandSucceeds
    \/ cleanupCommandFails

SpecCleanup == InitCleanup /\ [][NextCleanup]_vars

(***************************************************************************)
(* Successive starts of the backend container                              *)
(***************************************************************************)
InitEntrypoint ==
    StepsIdle /\ PortionIdle /\ FormatIdle /\ FormIdle /\ LegacyIdle /\ DeployIdle
        /\ CleanupIdle /\ ListIdle /\ EntrypointInit

NextEntrypoint ==
    \/ create_initial_data
    \/ create_initial_dataFails

SpecEntrypoint == InitEntrypoint /\ [][NextEntrypoint]_vars

(***************************************************************************)
(* The recipe list with its delete buttons                                 *)
(***************************************************************************)
InitList ==
    StepsIdle /\ PortionIdle /\ FormatIdle /\ FormIdle /\ LegacyIdle /\ ScriptsIdle
        /\ ListInit

NextList ==
    \/ handleDeleteDeclined
    \/ handleDelete
    \/ handleDeleteAnswered

SpecList == InitList /\ [][NextList]_vars

(***************************************************************************)
(* The step editor as the page offers it: the handlers behind their        *)
(* buttons, each enabled as the button is                                  *)
(***************************************************************************)
MaxEditorSteps == 3

\* readings of Date.now(): milliseconds since 1970, above any step index;
\* two calls within one millisecond read the same value
EditorClockValues == {8, 9}

\* RecipeForm.loadRecipe on a recipe whose steps is an array, or missing
\* (then arr is empty): the list itself unless it is empty
EnsuredSteps(arr) == IF Len(arr) = 0 THEN InitialSteps ELSE arr

\* the lists the editor is opened on: a new recipe, a stored structured
\* recipe, one without steps, and converted legacy recipes
EditorLists ==
    {InitialSteps, EnsuredSteps(LoadedSteps), EnsuredSteps(<<>>)}
        \cup {LoadedLegacySteps(str) : str \in {<<>>, <<"a">>, <<"a", "\n", "a">>}}

EditorInit ==
    /\ steps \in EditorLists
    /\ nextFile = 1
    /\ pending = {}
    /\ uploadingFiles = {}
    /\ last = Record("init", NoCall)

\* "+ Add step": always enabled
clickAddStep ==
    /\ Len(steps) < MaxEditorSteps
    /\ \E clock \in EditorClockValues : addStepAt(clock, FALSE)

\* the remove button of a card without its disabled attribute
clickRemoveStep_Unguarded ==
    \E index \in StepIndices : removeStepAt(index, FALSE)

\* the remove button of a card: disabled={steps.length === 1}
clickRemoveStep ==
    /\ Len(steps) # 1
    /\ \E index \in StepIndices : removeStepAt(index, FALSE)

\* the up button of a card: disabled={index === 0}
clickMoveUp ==
    \E index \in StepIndices :
        /\ index # 0
        /\ moveStepAt(index, index - 1, FALSE)

\* the down button of a card: disabled={index === steps.length - 1}
clickMoveDown ==
    \E index \in StepIndices :
        /\ index # Len(steps) - 1
        /\ moveStepAt(index, index + 1, FALSE)

InitSteps == EditorInit /\ PortionIdle /\ FormatIdle /\ IdleElsewhere

NextSteps ==
    \/ clickAddStep
    \/ clickRemoveStep
    \/ clickMoveUp
    \/ clickMoveDown

SpecSteps == InitSteps /\ [][NextSteps]_vars

(***************************************************************************)
(* Media requests and their outcomes, each completion observed in `last`.  *)
(* Every request axios sends settles: it is answered or it fails.          *)
(***************************************************************************)
uploadStored == \E p \in pending : uploadSucceedsWithin(p, MaxFiles, TRUE)

uploadRefused == \E p \in pending : uploadFailsAt(p, TRUE)

mediaDeleted == \E p \in pending : removeMediaSucceedsAt(p, TRUE)

mediaDeleteRefused == \E p \in pending : removeMediaFailsAt(p, TRUE)

NextOutcome ==
    \/ clickRemoveStep
    \/ clickMoveUp
    \/ clickMoveDown
    \/ updateStepDescription
    \/ handleMediaUpload
    \/ uploadStored
    \/ uploadRefused
    \/ removeMedia
    \/ mediaDeleted
    \/ mediaDeleteRefused

SpecOutcome ==
    Init /\ [][NextOutcome]_vars
        /\ WF_vars(uploadStored \/ uploadRefused)
        /\ WF_vars(mediaDeleted \/ mediaDeleteRefused)

(***************************************************************************)
(* Properties of the step list                                             *)
(***************************************************************************)
Numbered(arr) == \A k \in 1..Len(arr) : arr[k].stepNumber = k

Content(arr) ==
    [k \in 1..Len(arr) |->
        [id |-> arr[k].id, description |-> arr[k].description, media |-> arr[k].media]]

\* arr without its element at 1-based position pos
Without(arr, pos) ==
    [k \in 1..(Len(arr) - 1) |-> IF k < pos THEN arr[k] ELSE arr[k + 1]]

\* C1: after any sequence of StepManager operations from a numbered list,
\* the list passed to onChange (which becomes `steps`) has
\* steps[k].stepNumber = k+1 at every 0-based position k.
C1_StepNumbersMatchPositions == Numbered(steps)

\* the loaded recipe's first step is in second place and carries an
\* uploaded file next to its stored one; the step before it was re-described
C1_Witness ==
    /\ Len(steps) = 2
    /\ steps[2].id = 1 /\ steps[2].media = <<0, 1>>
    /\ steps[1].id = 2 /\ steps[1].description = <<"m", "i", "x">>

\* C2: removeStep(i) on n steps passes n-1 steps to onChange: the other
\* steps in their original order with the same id, description and media,
\* each numbered by its new 1-based position.
C2_RemoveStepKeepsOthersInOrder ==
    [][\A index \in StepIndices :
          removeStepAt(index, TRUE) =>
              /\ last'.called
              /\ Len(steps') = Len(steps) - 1
              /\ Content(steps') = Content(Without(steps, index + 1))
              /\ Numbered(steps')]_vars

\* the middle one of three steps was removed
C2_Witness ==
    /\ last.op = "removeStep" /\ last.called
    /\ Len(steps) = 2
    /\ steps[1].media = <<0>> /\ steps[1].stepNumber = 1
    /\ steps[2].description = <<"m", "i", "x">> /\ steps[2].stepNumber = 2

\* C3: moveStep(i, j) with both indices in range passes a list of the same
\* length in which the step formerly at i is at j, the other steps keep
\* their relative order, and every stepNumber is the 1-based position.
C3_MoveStepRelocatesOneStep ==
    [][\A fromIndex \in StepIndices, toIndex \in StepIndices :
          moveStepAt(fromIndex, toIndex, TRUE) =>
              /\ last'.called
              /\ Len(steps') = Len(steps)
              /\ Content(steps')[toIndex + 1] = Content(steps)[fromIndex + 1]
              /\ Content(Without(steps', toIndex + 1)) = Content(Without(steps, fromIndex + 1))
              /\ Numbered(steps')]_vars

\* the loaded recipe's first step (the one with media) is last of three
C3_Witness ==
    /\ last.op = "moveStep" /\ last.called
    /\ Len(steps) = 3
    /\ steps[3].media = <<0>> /\ steps[3].stepNumber = 3
    /\ steps[1].stepNumber = 1 /\ steps[2].stepNumber = 2

\* C4: moveStep(i, j) with j < 0 or j >= steps.length does not call
\* onChange and leaves the step list as it was.
C4_MoveStepOutOfRangeIsNoOp ==
    [][\A fromIndex \in StepIndices, toIndex \in {-1, Len(steps)} :
          moveStepAt(fromIndex, toIndex, TRUE) =>
              /\ ~last'.called
              /\ steps' = steps]_vars

\* a moveStep call returned at its bounds check, on a list of three steps
C4_Witness ==
    /\ last.op = "moveStep" /\ ~last.called
    /\ Len(steps) = 3

\* C5: addStep on n steps passes n+1 steps: the n existing ones unchanged,
\* then a new step with stepNumber n+1, empty description and no media.
C5_AddStepAppends ==
    [][\A clock \in ClockValues :
          addStepAt(clock, TRUE) =>
              /\ last'.called
              /\ Len(steps') = Len(steps) + 1
              /\ SubSeq(steps', 1, Len(steps)) = steps
              /\ steps'[Len(steps) + 1].stepNumber = Len(steps) + 1
              /\ steps'[Len(steps) + 1].description = <<>>
              /\ steps'[Len(steps) + 1].media = <<>>]_vars

\* a third step was appended to the loaded recipe's two
C5_Witness ==
    /\ last.op = "addStep" /\ last.called
    /\ Len(steps) = 3
    /\ steps[1].media = <<0>> /\ steps[1].description = <<"m", "i", "x">>
    /\ steps[3].stepNumber = 3

\* C6: a successful handleMediaUpload or removeMedia on step i passes to
\* onChange the list the handler was invoked on with only the media of
\* step i changed: same length, order, ids, descriptions, stepNumbers, and
\* the media of every other step.
C6_MediaChangeTouchesOneStep ==
    [][\A p \in pending :
          (uploadSucceedsFor(p) \/ removeMediaSucceedsFor(p)) =>
              /\ Len(steps') = Len(p.steps)
              /\ \A k \in 1..Len(p.steps) :
                    /\ steps'[k].id = p.steps[k].id
                    /\ steps'[k].description = p.steps[k].description
                    /\ steps'[k].stepNumber = p.steps[k].stepNumber
                    /\ (k # p.stepIndex + 1 => steps'[k].media = p.steps[k].media)]_vars

\* an uploaded file (1) is attached to the second step while the first
\* one keeps its stored file (0)
C6_Witness ==
    /\ Len(steps) = 2
    /\ steps[1].media = <<0>> /\ steps[2].media = <<1>>

(***************************************************************************)
(* Properties of PortionCalculator                                         *)
(***************************************************************************)
\* C7: with originalServings >= 1, after any sequence of increment,
\* decrement and direct-input events (the input carrying any integer, zero,
\* a negative or a non-numeric text), currentServings is an integer >= 1.
C7_CurrentServingsAtLeastOne ==
    /\ ~isNaN(currentServings)
    /\ currentServings.den = 1
    /\ currentServings.num >= 1

\* a zero, negative or non-numeric text was typed while one serving is
\* shown for a recipe of more than one
C7_Witness ==
    /\ event.kind = "input"
    /\ isNaN(event.value) \/ Le(event.value, Num(0))
    /\ StrictEq(currentServings, Num(1))
    /\ Gt(originalServings, Num(1))

\* C8: for every ingredient quantity q >= 0 (q = 0 included, which scales
\* to 0), originalServings s1 >= 1 and currentServings s2 >= 1, the scaled
\* quantity shown for that ingredient is q * s2 / s1; q = 100, s1 = 4,
\* s2 = 6 gives 150, displayed as "150".
C8_ScaledQuantityIsProportional ==
    \A i \in 1..Len(ingredients) :
        LET q == ingredients[i].quantity
            scaled == view.quantities[i]
            s1 == originalServings.num
            s2 == currentServings.num
        IN  /\ ~isNaN(scaled)
            /\ scaled.num * (q.den * s1) = (q.num * s2) * scaled.den
            /\ (q.num = 0 => scaled.num = 0 /\ view.texts[i] = <<"0">>)
            /\ (q = Num(100) /\ s1 = 4 /\ s2 = 6 => view.texts[i] = <<"1", "5", "0">>)

\* a recipe for 4 with 100 of an ingredient is shown for 6 servings
C8_Witness ==
    /\ originalServings = Num(4)
    /\ StrictEq(currentServings, Num(6))
    /\ event.kind = "increment"
    /\ \E i \in 1..Len(ingredients) :
          ingredients[i].quantity = Num(100) /\ view.texts[i] = <<"1", "5", "0">>

\* C9: whenever currentServings equals originalServings, every scaled
\* quantity equals the original one, and the 'original servings' indicator
\* is shown in exactly those states.
C9_SameServingsIsIdentity ==
    LET same == currentServings.num * originalServings.den
                    = originalServings.num * currentServings.den
    IN  /\ (view.indicator = "original") <=> same
        /\ same =>
              \A i \in 1..Len(ingredients) :
                  /\ view.quantities[i].num * ingredients[i].quantity.den
                        = ingredients[i].quantity.num * view.quantities[i].den
                  /\ view.texts[i] = formatQuantity(ingredients[i].quantity)

\* the serving count came back to the original 3 by a decrement
C9_Witness ==
    /\ event.kind = "decrement"
    /\ originalServings = Num(3)
    /\ StrictEq(currentServings, originalServings)
    /\ view.indicator = "original"
    /\ \E i \in 1..Len(ingredients) : ingredients[i].quantity = Frac(5, 2)

(***************************************************************************)
(* Reading a formatted quantity back                                       *)
(***************************************************************************)
DotPositions(str) == {k \in 1..Len(str) : str[k] = "."}

IntegerDigits(str) ==
    IF DotPositions(str) = {} THEN str
    ELSE SubSeq(str, 1, (CHOOSE k \in DotPositions(str) : TRUE) - 1)

DecimalDigits(str) ==
    IF DotPositions(str) = {} THEN <<>>
    ELSE SubSeq(str, (CHOOSE k \in DotPositions(str) : TRUE) + 1, Len(str))

AllDigits(str) == \A k \in 1..Len(str) : IsDigit(str[k])

\* digits, then possibly a point and one or two digits the last of which
\* is not 0; no leading zero before other integer digits
PlainDecimal(str) ==
    /\ Cardinality(DotPositions(str)) <= 1
    /\ Len(IntegerDigits(str)) >= 1
    /\ AllDigits(IntegerDigits(str))
    /\ (Len(IntegerDigits(str)) > 1 => IntegerDigits(str)[1] # "0")
    /\ AllDigits(DecimalDigits(str))
    /\ (DotPositions(str) # {} =>
            /\ Len(DecimalDigits(str)) \in {1, 2}
            /\ DecimalDigits(str)[Len(DecimalDigits(str))] # "0")

\* the value of a plain decimal, in hundredths
Hundredths(str) ==
    100 * DigitsValue(IntegerDigits(str))
        + (IF Len(DecimalDigits(str)) = 1 THEN 10 * DigitsValue(DecimalDigits(str))
           ELSE DigitsValue(DecimalDigits(str)))

\* C10: formatQuantity(x) for x >= 0 renders x rounded to 2 decimal places:
\* a whole rounded value as its integer digits without a decimal point,
\* any other with at most 2 decimals and no trailing zero; the value shown
\* is at most half a hundredth away from x; format(2.0) = "2",
\* format(2.5) = "2.5", format(2.333333) = "2.33", format(3.0001) = "3".
C10_FormatRoundsToTwoDecimals ==
    formatted # NotFormatted =>
        /\ PlainDecimal(formatted)
        /\ LET off == 2 * (100 * quantity.num - Hundredths(formatted) * quantity.den)
           IN  -quantity.den <= off /\ off <= quantity.den
        /\ (quantity = Num(2) => formatted = <<"2">>)
        /\ (quantity = Frac(5, 2) => formatted = <<"2", ".", "5">>)
        /\ (quantity = Frac(2333333, 1000000) => formatted = <<"2", ".", "3", "3">>)
        /\ (quantity = Frac(30001, 10000) => formatted = <<"3">>)

\* 2.333333 was formatted
C10_Witness ==
    /\ quantity = Frac(2333333, 1000000)
    /\ formatted = <<"2", ".", "3", "3">>

\* C11: a change of the serving count (increment, decrement, direct input)
\* assigns only the component's own currentServings and what is rendered
\* from it: the ingredients, their stored quantities and originalServings
\* stay as they are, no request goes to the persistence API, and the
\* optional callback, when given, is called with the clamped value and
\* otherwise not at all.
C11_ServingsChangeTouchesOnlyLocalState ==
    [][ (incrementServings \/ decrementServings \/ handleDirectInput) =>
            /\ ingredients' = ingredients
            /\ originalServings' = originalServings
            /\ sent' = sent
            /\ (notified' # notified =>
                    /\ hasCallback
                    /\ notified' = [called |-> TRUE, arg |-> currentServings'])
            /\ (~hasCallback => ~notified'.called) ]_vars

\* the count was changed away from the original on a recipe with a
\* fractional quantity, with a callback listening
C11_Witness ==
    /\ event.kind \in {"increment", "decrement", "input"}
    /\ ~StrictEq(currentServings, originalServings)
    /\ hasCallback /\ notified.called /\ StrictEq(notified.arg, currentServings)
    /\ \E i \in 1..Len(ingredients) : ingredients[i].quantity = Frac(5, 2)
    /\ sent = <<>>

\* the recipe payloads in flight
Payloads == {sent[i].payload : i \in 1..Len(sent)}

\* C12: every recipe payload sent by RecipeForm.handleSubmit,
\* RecipeManager.createRecipe or RecipeManager.updateRecipe has an integer
\* servings of at least 1, whatever was typed into the servings field.
C12_PayloadServingsAtLeastOne ==
    \A payload \in Payloads :
        /\ ~isNaN(payload.servings)
        /\ StrictEq(payload.servings, MathFloor(payload.servings))
        /\ Le(Num(1), payload.servings)

\* C13: every recipe payload sent contains at least one ingredient whose
\* name is non-empty after trimming.
C13_PayloadHasNamedIngredient ==
    \A payload \in Payloads :
        \E k \in 1..Len(payload.ingredients) :
            Trim(payload.ingredients[k].name) # <<>>

StepsValid(arr) ==
    /\ Len(arr) >= 1
    /\ \A k \in 1..Len(arr) : Trim(arr[k].description) # <<>>

\* C14: every recipe payload sent has a non-empty steps list in which every
\* description is non-empty after trimming.  With other steps RecipeForm
\* rejects the save with its error message and sends nothing, and the
\* submit button of RecipeManager cannot be clicked.
C14_PayloadStepsDescribed ==
    [][ /\ \A i \in 1..Len(sent') : StepsValid(sent'[i].payload.steps)
        /\ (handleSubmit /\ ~StepsValid(steps)) =>
               error' = "validation" /\ sent' = sent
        /\ ~StepsValid(steps) => ~(createRecipe \/ updateRecipe) ]_vars

\* RecipeManager puts a stored recipe whose second step had no description
\* when it was opened
C14_Witness ==
    /\ component = "RecipeManager" /\ form.editing
    /\ Len(sent) = 1 /\ sent[1].method = "put"
    /\ Len(sent[1].payload.steps) = 2
    /\ sent[1].payload.steps[2].id = 2
    /\ sent[1].payload.steps[2].description = <<"m", "i", "x">>

\* the k-th smallest element of a set of integers
Nth(S, k) == CHOOSE x \in S : Cardinality({y \in S : y < x}) = k - 1

\* the lines of a string by position: line k lies between the (k-1)-th and
\* the k-th newline
LineOf(str, k) ==
    LET breaks == {i \in 1..Len(str) : str[i] = "\n"}
        from == IF k = 1 THEN 1 ELSE Nth(breaks, k - 1) + 1
        to == IF k = Cardinality(breaks) + 1 THEN Len(str) ELSE Nth(breaks, k) - 1
    IN  SubSeq(str, from, to)

\* the numbers of the lines that hold something other than white space
NonBlankLines(str) ==
    LET count == Cardinality({i \in 1..Len(str) : str[i] = "\n"}) + 1
    IN  {k \in 1..count : \E i \in 1..Len(LineOf(str, k)) : LineOf(str, k)[i] \notin WhiteSpace}

\* C15: RecipeForm opened on a legacy recipe holds one step per non-blank
\* line of the string, in line order, its description the trimmed line, its
\* media empty, numbered 1..n; with no non-blank line it holds the single
\* empty step numbered 1.
C15_RecipeFormSplitsLegacySteps ==
    component = "RecipeForm" =>
        LET lines == NonBlankLines(legacy)
        IN  /\ Numbered(steps)
            /\ \A k \in 1..Len(steps) : steps[k].media = <<>>
            /\ IF lines = {}
               THEN steps = << [id |-> 1, stepNumber |-> 1, description |-> <<>>,
                                media |-> <<>>] >>
               ELSE /\ Len(steps) = Cardinality(lines)
                    /\ \A k \in 1..Len(steps) :
                          steps[k].description = Trim(LineOf(legacy, Nth(lines, k)))

\* the string "a", an empty line, "a": two steps "a" and "a"
C15_Witness ==
    /\ component = "RecipeForm"
    /\ legacy = <<"a", "\n", "\n", "a">>
    /\ Len(steps) = 2
    /\ steps[1].description = <<"a">> /\ steps[2].description = <<"a">>
    /\ steps[2].stepNumber = 2

\* C16: RecipeManager.startEdit on a legacy recipe gives the edit form one
\* step per non-blank line of the string, numbered from 1.
C16_StartEditSplitsLegacySteps ==
    (component = "RecipeManager" /\ NonBlankLines(legacy) # {}) =>
        /\ Len(steps) = Cardinality(NonBlankLines(legacy))
        /\ Numbered(steps)

\* C17: every create, update or delete request the frontend issues (recipe
\* save and delete, category and tag create, update and delete, step media
\* upload and delete) carries an Authorization header, and the admin
\* components issue no request for a user who is not an administrator.
C17_MutatingRequestsAuthorized ==
    /\ \A i \in 1..Len(sent) : sent[i].authorization
    /\ \A p \in pending : p.authorization
    /\ ~form.admin => (sent = <<>> /\ pending = {})

\* C18: no step ever holds more than 5 media attachments, whatever
\* uploads (of any number of files) and removals were made on it.
C18_AtMostFiveMediaPerStep ==
    \A k \in 1..Len(steps) : Len(steps[k].media) <= MaxMediaPerStep


\* C19: when a run of the deployment script fails in any of the steps
\* check_prerequisites .. cleanup_old_images (a failing command, a timed-out
\* wait, or a failed check that ends with exit 1), rollback has run before
\* the script ends (what BACKUP_DIR holds is restored) and the exit status
\* is non-zero; when all seven steps succeeded, rollback has not run.
C19_FailureRollsBackSuccessDoesNot ==
    deploy.state = "exited" =>
        IF \E i \in DOMAIN StepFunctions : deploy.failedIn = StepFunctions[i]
            THEN /\ deploy.rolledBack
                 /\ deploy.status # 0
                 /\ deploy.restored = (IF deploy.backupDir THEN deploy.backup ELSE {})
            ELSE ~deploy.rolledBack

\* C20: the safe cleanup script never removes the two database volumes;
\* after a y/Y answer the only volumes it removes are the three log and
\* media volumes; after any other answer the host is as it was.
C20_SafeCleanupKeepsDatabaseVolumes ==
    docker.state # "idle" =>
        /\ docker.initial.volumes \cap DatabaseVolumes \subseteq docker.host.volumes
        /\ docker.initial.volumes \ docker.host.volumes \subseteq LogMediaVolumes
        /\ ~Confirmed(docker.reply) => docker.host = docker.initial

\* a confirmed run on a host with the project up has ended: the containers
\* and the log and media volumes are gone, the database volumes are there
C20_Witness ==
    /\ docker.state = "done"
    /\ Confirmed(docker.reply)
    /\ docker.initial.running = Services
    /\ Containers(docker.host) = {}
    /\ LogMediaVolumes \subseteq docker.initial.volumes
    /\ docker.host.volumes = DatabaseVolumes

\* the services the commands before the one at pc start
StartedBefore(pc) ==
    UNION { IF main[i].cmd = "up -d database redis" THEN {"database", "redis"}
            ELSE IF main[i].cmd = "up -d backend" THEN {"backend"}
            ELSE IF main[i].cmd = "up -d frontend nginx" THEN {"frontend", "nginx"}
            ELSE {} : i \in 1..(pc - 1) }

\* C21: deploy_services starts the backend only after the database and
\* Redis have both been seen ready, and frontend and nginx only after the
\* backend health endpoint has answered; when a readiness wait times out
\* the run has ended and no service after that wait has been started.
C21_StartOrderEnforced ==
    /\ "backend" \in deploy.started => {"database", "redis"} \subseteq deploy.ready
    /\ deploy.started \cap {"frontend", "nginx"} # {} => "backend" \in deploy.ready
    /\ deploy.status = FailureStatus("wait") =>
          /\ deploy.state = "exited"
          /\ deploy.started = StartedBefore(deploy.pc)

\* a run has started all five services, each after the waits before it
C21_Witness ==
    /\ deploy.state = "exited"
    /\ deploy.status = 0
    /\ deploy.started = Services
    /\ deploy.ready = {"database", "redis", "backend"}

C27_DeleteOnlyOnSuccess ==
    /\ \A k \in 1..Len(recipeList.fetched) :
          (\A j \in 1..Len(recipeList.recipes) :
              recipeList.recipes[j] # recipeList.fetched[k])
          => recipeList.fetched[k] \in recipeList.deletedOnServer
    /\ recipeList.last = "declined" => recipeList.pending = {}
    /\ recipeList.last \in {"http error", "network error"} => recipeList.alerts > 0
    /\ recipeList.hasOnDelete =>
          recipeList.onDeleteCalls <= Cardinality(recipeList.deletedOnServer)

\* a step with its media left out
Unattached(step) ==
    [id |-> step.id, stepNumber |-> step.stepNumber, description |-> step.description]

\* C23: when a media upload or a media deletion completes and calls
\* onChange, the list it passes is the list current at that moment with
\* only the media of the chosen step changed: same length, every step's
\* id, number and description as they are now, and the media of every
\* step other than the chosen one as they are now.
C23_CompletionKeepsConcurrentEdits ==
    [][ \A p \in pending :
          p \notin pending' /\ steps' # steps =>
            /\ Len(steps') = Len(steps)
            /\ \A k \in 1..Len(steps) :
                  /\ Unattached(steps'[k]) = Unattached(steps[k])
                  /\ steps[k].id # p.steps[p.stepIndex + 1].id => steps'[k] = steps[k] ]_vars

\* C24: a failed media operation leaves the step list as it is: when an
\* upload fails (the request fails or the response says success false)
\* or a deletion fails on the server, onChange is not called and the
\* steps, with their media, stay the same; and whatever the outcome of an
\* upload, the uploading flag of its step position is reset then, so a
\* flag that is set is eventually cleared.
C24_FailedMediaOperationChangesNothing ==
    /\ [][ \A p \in pending : p \notin pending' =>
              /\ last'.op \in {"uploadFails", "removeMediaFails"} =>
                    steps' = steps /\ ~last'.called
              /\ p.kind = "upload" => p.stepIndex \notin uploadingFiles' ]_vars
    /\ \A index \in 0..MaxSteps :
          (index \in uploadingFiles) ~> (index \notin uploadingFiles)

\* an upload to a step has just failed: its flag is down and the step
\* has the media it had
C24_Witness ==
    /\ last.op = "uploadFails"
    /\ uploadingFiles = {}
    /\ pending = {}
    /\ steps = LoadedSteps

\* C25: in every step list the editor reaches from the initial form
\* state, a loaded recipe or a legacy conversion by adding, removing and
\* moving steps, no two steps have the same id.
C25_StepIdsUnique ==
    \A i, j \in 1..Len(steps) : i # j => steps[i].id # steps[j].id

\* C26: the step list of the editor is never empty, whatever list it was
\* opened on and whatever enabled add, remove and move buttons were used.
C26_StepListNeverEmpty == Len(steps) >= 1

\* the list was opened with one step, a step was added and the first one
\* removed: the remove button is now disabled on the step that is left
C26_Witness ==
    /\ Len(steps) = 1
    /\ steps[1].id \in EditorClockValues
    /\ steps[1].stepNumber = 1

====
